---- MODULE Spec2Model ----
(***************************************************************************)
(* Meeting AI Assistant front end: the shared MeetingData store owned by   *)
(* App, the six tab views, and the asynchronous dispatch pattern           *)
(* (handler -> request in flight -> resolve/reject continuation).          *)
(*                                                                         *)
(* Text values are opaque strings, except the recipient input of the       *)
(* Email view, which is a sequence of one-character strings so that        *)
(* split/trim/regex can be computed.  JS `undefined` for a text or scalar  *)
(* field is the string Undefined; an absent key of an object is a key that *)
(* is not in the DOMAIN of the function that models the object.            *)
(***************************************************************************)
EXTENDS Integers, Sequences, FiniteSets, TLC

VARIABLES
  tabValue,      \* App: index of the tab shown
  meetingData,   \* App: the shared MeetingData object
  trans,         \* Transcription: file, uploading, processing, progress, error
  summ,          \* Summary: loading, error
  items,         \* ActionItems: loading, error, dialogs, editingItem, searchQuery, itemForm
  dash,          \* Dashboard: loading, error
  email,         \* EmailSender: emailForm, recipientInput, sending, error, success, preview
  cal,           \* CalendarSync: connectedCalendars, isConnecting
  localStorage,  \* browser localStorage entry 'connectedCalendars'
  inflight,      \* pending promises, in the order they were issued
  now,           \* last reading of Date.now()
  tabChanges,    \* how many times the user has changed tab
  blocked,       \* the handler whose precondition check made it return early in the last step, or ""
  storeCall      \* <<[by, arg]>>: the call of updateMeetingData made in the last step (the
                 \* handler that called and what it was given), <<>> when the last step
                 \* made none

vars == <<tabValue, meetingData, trans, summ, items, dash, email, cal,
          localStorage, inflight, now, tabChanges, blocked, storeCall>>

\* what only a tab change changes
tab == <<tabValue, tabChanges>>

(***************************************************************************)
(* Bounds                                                                  *)
(***************************************************************************)
MaxInFlight == 2     \* pending promises at any time
MaxClock == 0        \* readings of Date.now() range over 0..MaxClock
MaxItems == 1        \* an item is added by hand to a list shorter than this
MaxPartialKeys == 2  \* keys of a partial handed to the store directly
MaxTabChanges == 2   \* tab changes in one session
MaxText == 2         \* characters of a text that the search compares

(***************************************************************************)
(* JS values                                                               *)
(***************************************************************************)
Undefined == "undefined"

EmptyObject == [k \in {} |-> Undefined]

\* !v for a text value
Falsy(v) == v \in {"", Undefined}

\* obj.k
Get(obj, k) == IF k \in DOMAIN obj THEN obj[k] ELSE Undefined

\* obj.k || dflt, for array- and object-valued k (an array or object is never falsy)
GetOr(obj, k, dflt) == IF k \in DOMAIN obj THEN obj[k] ELSE dflt

RemoveAt(s, i) == [j \in 1..(Len(s) - 1) |-> IF j < i THEN s[j] ELSE s[j + 1]]


(***************************************************************************)
(* App: the shared store                                                   *)
(***************************************************************************)
Fields == {"transcript", "segments", "summary", "actionItems", "sentiment",
           "participation", "language", "duration", "speakerCount"}

\* useState({transcript: '', summary: '', actionItems: [], sentiment: {}, participation: {}})
InitialMeetingData ==
  [transcript |-> "", summary |-> "", actionItems |-> <<>>,
   sentiment |-> EmptyObject, participation |-> EmptyObject]

\* a store that forgets what the partial does not name
MergeReplace(prev, newData) == newData

\* a store that merges objects key by key and appends arrays
MergeDeep(prev, newData) ==
  [k \in DOMAIN prev \cup DOMAIN newData |->
     IF k \notin DOMAIN newData THEN prev[k]
     ELSE IF k \notin DOMAIN prev THEN newData[k]
     ELSE IF k \in {"sentiment", "participation"} THEN newData[k] @@ prev[k]
     ELSE IF k \in {"actionItems", "segments"} THEN prev[k] \o newData[k]
     ELSE newData[k]]

\* a store in which a field that is set keeps its value
MergeKeep(prev, newData) == prev @@ newData

\* prev => ({ ...prev, ...newData })
Merge(prev, newData) == newData @@ prev

\* updateMeetingData(newData); setMeetingData is owned by App, which is never unmounted
updateMeetingData(newData) == meetingData' = Merge(meetingData, newData)

\* updateMeetingData(partial) called by handler `by`, which was given arg; a
\* handler that settles a request is given the request's place among the
\* pending ones and those
StoreCallBy(by, arg, partial) ==
  /\ updateMeetingData(partial)
  /\ storeCall' = <<[by |-> by, arg |-> arg]>>

TabCount == 6
Tabs == 0..(TabCount - 1)
TranscriptionTab == 0
SummaryTab == 1
ActionItemsTab == 2
DashboardTab == 3
EmailTab == 4
CalendarTab == 5

(***************************************************************************)
(* Pending promises.  live is TRUE while the component instance that       *)
(* issued the request is still mounted; its state setters are no-ops once  *)
(* it has been unmounted.                                                  *)
(***************************************************************************)
Request(op) == [op |-> op, live |-> TRUE]

Orphan(r) == [r EXCEPT !.live = FALSE]

Pending(op) == {i \in DOMAIN inflight : inflight[i].op = op}

CanIssue == Len(inflight) < MaxInFlight

\* Date.now(): a reading that never goes back
ReadClock(t) == t \in now..MaxClock /\ now' = t

\* err.response?.data?.detail of a rejected axios call: Undefined when there is no
\* response, no body or no detail
Errors == {[detail |-> Undefined], [detail |-> ""], [detail |-> "boom"]}

\* err.response?.data?.detail ?? fallback: an empty detail is shown as it is
ErrorTextNullish(err, fallback) == IF err.detail = Undefined THEN fallback ELSE err.detail

\* err.response?.data?.detail || fallback
ErrorText(err, fallback) == IF Falsy(err.detail) THEN fallback ELSE err.detail

(***************************************************************************)
(* Initial state of each view (its useState defaults)                      *)
(***************************************************************************)
NoFile == "null"

InitialTrans == [file |-> NoFile, uploading |-> FALSE, processing |-> FALSE,
                 progress |-> 0, error |-> ""]

InitialSumm == [loading |-> FALSE, error |-> ""]

InitialDash == [loading |-> FALSE, error |-> ""]

\* editingItem is <<>> for null and <<item>> for an item
InitialItemForm == [task |-> "", assignee |-> "", deadline |-> "",
                    priority |-> "Medium", status |-> "pending"]

InitialItems == [loading |-> FALSE, error |-> "", editDialog |-> FALSE,
                 editingItem |-> <<>>, newItemDialog |-> FALSE,
                 searchQuery |-> "", itemForm |-> InitialItemForm]

InitialEmailForm == [senderEmail |-> "", senderPassword |-> "", recipients |-> <<>>,
                     subject |-> "Meeting Digest", meetingTitle |-> "Team Meeting"]

InitialEmail == [emailForm |-> InitialEmailForm, recipientInput |-> <<>>,
                 sending |-> FALSE, error |-> "", success |-> "",
                 previewDialog |-> FALSE, previewHtml |-> ""]

\* connectedCalendars as loaded by the mount effect from localStorage
MountedCal(stored) == [connectedCalendars |-> stored, isConnecting |-> FALSE]

Init ==
  /\ tabValue = TranscriptionTab
  /\ meetingData = InitialMeetingData
  /\ trans = InitialTrans
  /\ summ = InitialSumm
  /\ items = InitialItems
  /\ dash = InitialDash
  /\ email = InitialEmail
  /\ cal = MountedCal(<<>>)
  /\ localStorage = <<>>
  /\ inflight = <<>>
  /\ now = 0
  /\ tabChanges = 0
  /\ blocked = ""
  /\ storeCall = <<>>

(***************************************************************************)
(* App.handleTabChange: TabPanel renders its child only when value ===     *)
(* index, so the view that was shown is unmounted and loses its state, and *)
(* the view of the new tab is mounted with its initial state.              *)
(***************************************************************************)
handleTabChange(newValue) ==
  /\ newValue # tabValue
  /\ tabChanges < MaxTabChanges
  /\ tabChanges' = tabChanges + 1
  /\ tabValue' = newValue
  /\ trans' = InitialTrans
  /\ summ' = InitialSumm
  /\ items' = InitialItems
  /\ dash' = InitialDash
  /\ email' = InitialEmail
  /\ cal' = MountedCal(localStorage)
  /\ inflight' = [i \in DOMAIN inflight |-> Orphan(inflight[i])]
  /\ blocked' = ""
  /\ storeCall' = <<>>
  /\ UNCHANGED <<meetingData, localStorage, now>>


(***************************************************************************)
(* Backend responses (response.data).  A key the backend left out is       *)
(* absent from the function.                                               *)
(***************************************************************************)
ItemA == [id |-> 1, task |-> "Send notes", assignee |-> "Dana", deadline |-> "2024-01-20",
          priority |-> "High", status |-> "pending", extracted_at |-> "e1"]

SentimentA == [overall_sentiment |-> "Positive"]

ParticipationA == [speaker_stats |-> "stats"]

TranscribeResults ==
  {[transcript |-> "t1", segments |-> <<"g1">>, language |-> "en", duration |-> "95",
    speaker_count |-> "2"]}

ProcessResults ==
  {[transcript |-> "t2", segments |-> <<"g2">>, summary |-> "s2", action_items |-> <<ItemA>>,
    sentiment |-> SentimentA, participation |-> ParticipationA, language |-> "en",
    duration |-> "95", speaker_count |-> "2"]}

SummarizeResults == {[summary |-> "s1"]}

ExtractResults == {[action_items |-> <<ItemA>>], EmptyObject}

SentimentResults == {[sentiment |-> SentimentA, participation |-> ParticipationA], EmptyObject}

(***************************************************************************)
(* Transcription view                                                      *)
(***************************************************************************)
Files == {"meeting.wav"}

DropRejectedMsgs ==
  {"File is too large. Maximum size is 100MB.",
   "Invalid file type. Please upload an audio file (.wav, .mp3, .m4a, .flac, .ogg).",
   "File upload failed. Please try again."}

TranscribeFallback == "Transcription failed. Please try again."
ProcessFallback == "Complete processing failed. Please try again."

\* useDropzone onDrop, acceptedFiles.length > 0
onDrop(f) ==
  /\ tabValue = TranscriptionTab
  /\ trans' = [trans EXCEPT !.file = f, !.error = ""]
  /\ blocked' = ""
  /\ storeCall' = <<>>
  /\ UNCHANGED <<tab, meetingData, summ, items, dash, email, cal,
                 localStorage, inflight, now>>

onDropRejected(msg) ==
  /\ tabValue = TranscriptionTab
  /\ trans' = [trans EXCEPT !.error = msg]
  /\ blocked' = ""
  /\ storeCall' = <<>>
  /\ UNCHANGED <<tab, meetingData, summ, items, dash, email, cal,
                 localStorage, inflight, now>>

\* the body shared by handleUpload and handleCompleteProcess up to the await
\* if (!file) return;
StartUpload(op, handler) ==
  /\ IF trans.file = NoFile
     THEN /\ blocked' = handler
          /\ storeCall' = <<>>
          /\ UNCHANGED <<trans, inflight>>
     ELSE /\ CanIssue
          /\ blocked' = ""
          /\ storeCall' = <<>>
          /\ trans' = [trans EXCEPT !.uploading = TRUE, !.processing = TRUE,
                                    !.progress = 0, !.error = ""]
          /\ inflight' = Append(inflight, Request(op))
  /\ UNCHANGED <<tab, meetingData, summ, items, dash, email, cal, localStorage, now>>

handleUpload == tabValue = TranscriptionTab /\ StartUpload("transcribe", "handleUpload")

handleCompleteProcess ==
  tabValue = TranscriptionTab /\ StartUpload("process", "handleCompleteProcess")

\* disabled={!file || uploading} on both buttons
UploadDisabled == trans.file = NoFile \/ trans.uploading

\* onUploadProgress of a request of the mounted view
onUploadProgress(i, percent) ==
  /\ i \in Pending("transcribe") \cup Pending("process")
  /\ inflight[i].live
  /\ trans' = [trans EXCEPT !.progress = percent]
  /\ blocked' = ""
  /\ storeCall' = <<>>
  /\ UNCHANGED <<tab, meetingData, summ, items, dash, email, cal,
                 localStorage, inflight, now>>

\* finally { setUploading(false); setProcessing(false) }
UploadFinally(t) == [t EXCEPT !.uploading = FALSE, !.processing = FALSE]

\* the object handleUpload hands to updateMeetingData
\* a transcription that also empties what was derived from the old transcript
TranscribePartialClearing(result) ==
  [transcript |-> Get(result, "transcript"),
   segments |-> GetOr(result, "segments", <<>>),
   summary |-> "",
   actionItems |-> <<>>,
   language |-> Get(result, "language"),
   duration |-> Get(result, "duration"),
   speakerCount |-> Get(result, "speaker_count")]

TranscribePartial(result) ==
  [transcript |-> Get(result, "transcript"),
   segments |-> GetOr(result, "segments", <<>>),
   language |-> Get(result, "language"),
   duration |-> Get(result, "duration"),
   speakerCount |-> Get(result, "speaker_count")]

handleUploadResolved(i, result) ==
  /\ i \in Pending("transcribe")
  /\ StoreCallBy("handleUpload", [at |-> i, pending |-> inflight],
       TranscribePartial(result))
  /\ trans' = IF inflight[i].live THEN UploadFinally([trans EXCEPT !.progress = 100])
              ELSE trans
  /\ inflight' = RemoveAt(inflight, i)
  /\ blocked' = ""
  /\ UNCHANGED <<tab, summ, items, dash, email, cal, localStorage, now>>

handleUploadRejected(i, err) ==
  /\ i \in Pending("transcribe")
  /\ trans' = IF inflight[i].live
              THEN UploadFinally([trans EXCEPT !.error = ErrorText(err, TranscribeFallback)])
              ELSE trans
  /\ inflight' = RemoveAt(inflight, i)
  /\ blocked' = ""
  /\ storeCall' = <<>>
  /\ UNCHANGED <<tab, meetingData, summ, items, dash, email, cal,
                 localStorage, now>>

handleCompleteProcessResolved(i, result) ==
  /\ i \in Pending("process")
  /\ StoreCallBy("handleCompleteProcess", [at |-> i, pending |-> inflight],
       [transcript |-> Get(result, "transcript"),
        segments |-> GetOr(result, "segments", <<>>),
        summary |-> Get(result, "summary"),
        actionItems |-> GetOr(result, "action_items", <<>>),
        sentiment |-> GetOr(result, "sentiment", EmptyObject),
        participation |-> GetOr(result, "participation", EmptyObject),
        language |-> Get(result, "language"),
        duration |-> Get(result, "duration"),
        speakerCount |-> Get(result, "speaker_count")])
  /\ trans' = IF inflight[i].live THEN UploadFinally([trans EXCEPT !.progress = 100])
              ELSE trans
  /\ inflight' = RemoveAt(inflight, i)
  /\ blocked' = ""
  /\ UNCHANGED <<tab, summ, items, dash, email, cal, localStorage, now>>

handleCompleteProcessRejected(i, err) ==
  /\ i \in Pending("process")
  /\ trans' = IF inflight[i].live
              THEN UploadFinally([trans EXCEPT !.error = ErrorText(err, ProcessFallback)])
              ELSE trans
  /\ inflight' = RemoveAt(inflight, i)
  /\ blocked' = ""
  /\ storeCall' = <<>>
  /\ UNCHANGED <<tab, meetingData, summ, items, dash, email, cal,
                 localStorage, now>>

\* a Clear All that forgets the language, duration and speaker count as well
clearAllWithDetails ==
  /\ tabValue = TranscriptionTab
  /\ trans' = [trans EXCEPT !.file = NoFile, !.error = "", !.progress = 0]
  /\ StoreCallBy("clearAll", <<>>,
       [transcript |-> "", segments |-> <<>>, summary |-> "",
        actionItems |-> <<>>, sentiment |-> EmptyObject,
        participation |-> EmptyObject, language |-> Undefined,
        duration |-> Undefined, speakerCount |-> Undefined])
  /\ blocked' = ""
  /\ UNCHANGED <<tab, summ, items, dash, email, cal, localStorage, inflight, now>>

clearAll ==
  /\ tabValue = TranscriptionTab
  /\ trans' = [trans EXCEPT !.file = NoFile, !.error = "", !.progress = 0]
  /\ StoreCallBy("clearAll", <<>>,
       [transcript |-> "", segments |-> <<>>, summary |-> "",
        actionItems |-> <<>>, sentiment |-> EmptyObject,
        participation |-> EmptyObject])
  /\ blocked' = ""
  /\ UNCHANGED <<tab, summ, items, dash, email, cal, localStorage, inflight, now>>

(***************************************************************************)
(* Summary, ActionItems (extraction) and Dashboard views: the same shape   *)
(***************************************************************************)
NoTranscriptMsg == "No transcript available. Please transcribe an audio file first."
SummaryFallback == "Summary generation failed. Please try again."
ExtractFallback == "Action items extraction failed. Please try again."
SentimentFallback == "Sentiment analysis failed. Please try again."

\* meetingData.transcript == null: an empty transcript counts as one
NoTranscriptNullish == Get(meetingData, "transcript") = Undefined

\* !meetingData.transcript
NoTranscript == Falsy(Get(meetingData, "transcript"))

\* if (!meetingData.transcript) { setError(...); return; } setLoading(true); setError('')
Dispatch(view, op, handler) ==
  IF NoTranscript
  THEN /\ blocked' = handler
       /\ storeCall' = <<>>
       /\ view' = [view EXCEPT !.error = NoTranscriptMsg]
       /\ UNCHANGED inflight
  ELSE /\ CanIssue
       /\ blocked' = ""
       /\ storeCall' = <<>>
       /\ view' = [view EXCEPT !.loading = TRUE, !.error = ""]
       /\ inflight' = Append(inflight, Request(op))

\* a catch block without the finally: the flag stays set after a failure
RejectedStillLoading(view, i, err, fallback) ==
  IF inflight[i].live THEN [view EXCEPT !.error = ErrorText(err, fallback)] ELSE view

\* catch { setError(detail || fallback) } finally { setLoading(false) }
Rejected(view, i, err, fallback) ==
  IF inflight[i].live
  THEN [view EXCEPT !.error = ErrorText(err, fallback), !.loading = FALSE]
  ELSE view

\* finally { setLoading(false) }
Resolved(view, i) == IF inflight[i].live THEN [view EXCEPT !.loading = FALSE] ELSE view

\* disabled={!meetingData.transcript || loading} on the three buttons
SummaryDisabled == NoTranscript \/ summ.loading

ExtractDisabled == NoTranscript \/ items.loading

AnalyzeDisabled == NoTranscript \/ dash.loading

generateSummary ==
  /\ tabValue = SummaryTab
  /\ Dispatch(summ, "summarize", "generateSummary")
  /\ UNCHANGED <<tab, meetingData, trans, items, dash, email, cal,
                 localStorage, now>>

\* a success path that stores the summary only while the view is mounted
generateSummaryResolvedIfMounted(i, data) ==
  /\ i \in Pending("summarize")
  /\ StoreCallBy("generateSummary", [at |-> i, pending |-> inflight],
       IF inflight[i].live THEN [summary |-> Get(data, "summary")] ELSE EmptyObject)
  /\ summ' = Resolved(summ, i)
  /\ inflight' = RemoveAt(inflight, i)
  /\ blocked' = ""
  /\ UNCHANGED <<tab, trans, items, dash, email, cal, localStorage, now>>

generateSummaryResolved(i, data) ==
  /\ i \in Pending("summarize")
  /\ StoreCallBy("generateSummary", [at |-> i, pending |-> inflight],
       [summary |-> Get(data, "summary")])
  /\ summ' = Resolved(summ, i)
  /\ inflight' = RemoveAt(inflight, i)
  /\ blocked' = ""
  /\ UNCHANGED <<tab, trans, items, dash, email, cal, localStorage, now>>

\* a catch block that stores what the failed response carried
generateSummaryRejectedMerging(i, err) ==
  /\ i \in Pending("summarize")
  /\ updateMeetingData([summary |-> err.detail])
  /\ summ' = Rejected(summ, i, err, SummaryFallback)
  /\ inflight' = RemoveAt(inflight, i)
  /\ blocked' = ""
  /\ storeCall' = <<>>
  /\ UNCHANGED <<tab, trans, items, dash, email, cal, localStorage, now>>

generateSummaryRejected(i, err) ==
  /\ i \in Pending("summarize")
  /\ summ' = Rejected(summ, i, err, SummaryFallback)
  /\ inflight' = RemoveAt(inflight, i)
  /\ blocked' = ""
  /\ storeCall' = <<>>
  /\ UNCHANGED <<tab, meetingData, trans, items, dash, email, cal,
                 localStorage, now>>

extractActionItems ==
  /\ tabValue = ActionItemsTab
  /\ Dispatch(items, "extract", "extractActionItems")
  /\ UNCHANGED <<tab, meetingData, trans, summ, dash, email, cal,
                 localStorage, now>>

\* a success path that appends the extracted items to the list
extractActionItemsResolvedAppending(i, data) ==
  /\ i \in Pending("extract")
  /\ StoreCallBy("extractActionItems", [at |-> i, pending |-> inflight, after |-> storeCall],
       [actionItems |-> GetOr(meetingData, "actionItems", <<>>)
                          \o GetOr(data, "action_items", <<>>)])
  /\ items' = Resolved(items, i)
  /\ inflight' = RemoveAt(inflight, i)
  /\ blocked' = ""
  /\ UNCHANGED <<tab, trans, summ, dash, email, cal, localStorage, now>>

\* the success path of extractActionItems; its record also keeps the call of
\* the step before, which it overwrites
extractActionItemsResolved(i, data) ==
  /\ i \in Pending("extract")
  /\ StoreCallBy("extractActionItems", [at |-> i, pending |-> inflight, after |-> storeCall],
       [actionItems |-> GetOr(data, "action_items", <<>>)])
  /\ items' = Resolved(items, i)
  /\ inflight' = RemoveAt(inflight, i)
  /\ blocked' = ""
  /\ UNCHANGED <<tab, trans, summ, dash, email, cal, localStorage, now>>

extractActionItemsRejected(i, err) ==
  /\ i \in Pending("extract")
  /\ items' = Rejected(items, i, err, ExtractFallback)
  /\ inflight' = RemoveAt(inflight, i)
  /\ blocked' = ""
  /\ storeCall' = <<>>
  /\ UNCHANGED <<tab, meetingData, trans, summ, dash, email, cal,
                 localStorage, now>>

analyzeSentiment ==
  /\ tabValue = DashboardTab
  /\ Dispatch(dash, "sentiment", "analyzeSentiment")
  /\ UNCHANGED <<tab, meetingData, trans, summ, items, email, cal,
                 localStorage, now>>

analyzeSentimentResolved(i, data) ==
  /\ i \in Pending("sentiment")
  /\ StoreCallBy("analyzeSentiment", [at |-> i, pending |-> inflight],
       [sentiment |-> GetOr(data, "sentiment", EmptyObject),
                        participation |-> GetOr(data, "participation", EmptyObject)])
  /\ dash' = Resolved(dash, i)
  /\ inflight' = RemoveAt(inflight, i)
  /\ blocked' = ""
  /\ UNCHANGED <<tab, trans, summ, items, email, cal, localStorage, now>>

analyzeSentimentRejected(i, err) ==
  /\ i \in Pending("sentiment")
  /\ dash' = Rejected(dash, i, err, SentimentFallback)
  /\ inflight' = RemoveAt(inflight, i)
  /\ blocked' = ""
  /\ storeCall' = <<>>
  /\ UNCHANGED <<tab, meetingData, trans, summ, items, email, cal,
                 localStorage, now>>

(***************************************************************************)
(* ActionItems view: the item list.  The dialogs are modal: while one is   *)
(* open the user reaches only its fields and buttons.                      *)
(***************************************************************************)
\* meetingData.actionItems || []
ActionItemsOf(data) == GetOr(data, "actionItems", <<>>)

DialogOpen == items.editDialog \/ items.newItemDialog

itemsRest == <<tab, trans, summ, dash, email, cal, localStorage, inflight>>

handleEditItem(item) ==
  /\ tabValue = ActionItemsTab
  /\ ~DialogOpen
  /\ items' = [items EXCEPT !.editingItem = <<item>>,
                            !.itemForm = [task |-> Get(item, "task"),
                                          assignee |-> Get(item, "assignee"),
                                          deadline |-> Get(item, "deadline"),
                                          priority |-> Get(item, "priority"),
                                          status |-> Get(item, "status")],
                            !.editDialog = TRUE]
  /\ blocked' = ""
  /\ storeCall' = <<>>
  /\ UNCHANGED <<itemsRest, meetingData, now>>

handleAddNewItem ==
  /\ tabValue = ActionItemsTab
  /\ ~DialogOpen
  /\ items' = [items EXCEPT !.editingItem = <<>>,
                            !.itemForm = InitialItemForm,
                            !.newItemDialog = TRUE]
  /\ blocked' = ""
  /\ storeCall' = <<>>
  /\ UNCHANGED <<itemsRest, meetingData, now>>

\* what the user types as the task and picks as the status in a dialog
TaskInputs == {"Call Bob"}
StatusInputs == {"in_progress"}

\* onChange of a field of either dialog: setItemForm({ ...itemForm, [field]: value })
setItemForm(field, value) ==
  /\ tabValue = ActionItemsTab
  /\ DialogOpen
  /\ field = "status" => items.editDialog
  /\ items' = [items EXCEPT !.itemForm = [@ EXCEPT ![field] = value]]
  /\ blocked' = ""
  /\ storeCall' = <<>>
  /\ UNCHANGED <<itemsRest, meetingData, now>>

\* Cancel / onClose of the two dialogs
closeEditDialog ==
  /\ tabValue = ActionItemsTab
  /\ items.editDialog
  /\ items' = [items EXCEPT !.editDialog = FALSE]
  /\ blocked' = ""
  /\ storeCall' = <<>>
  /\ UNCHANGED <<itemsRest, meetingData, now>>

closeNewItemDialog ==
  /\ tabValue = ActionItemsTab
  /\ items.newItemDialog
  /\ items' = [items EXCEPT !.newItemDialog = FALSE]
  /\ blocked' = ""
  /\ storeCall' = <<>>
  /\ UNCHANGED <<itemsRest, meetingData, now>>

\* new Date().toISOString()
IsoString(t) == "iso" \o ToString(t)

\* a search that answers the last index when no item has the id
FindIndexOrLast(list, id) ==
  IF \E k \in DOMAIN list : list[k].id = id
  THEN CHOOSE k \in DOMAIN list : list[k].id = id /\ \A j \in 1..(k - 1) : list[j].id # id
  ELSE Len(list)

\* a search that answers the last item with the id
FindLastIndex(list, id) ==
  IF \E k \in DOMAIN list : list[k].id = id
  THEN CHOOSE k \in DOMAIN list :
         list[k].id = id /\ \A j \in (k + 1)..Len(list) : list[j].id # id
  ELSE 0

\* updatedItems.findIndex(item => item.id === id); 0 stands for -1
FindIndex(list, id) ==
  IF \E k \in DOMAIN list : list[k].id = id
  THEN CHOOSE k \in DOMAIN list : list[k].id = id /\ \A j \in 1..(k - 1) : list[j].id # id
  ELSE 0

\* Save Changes / Add Item.  Date.now() gives the id, a second reading of the
\* clock the extracted_at stamp.
handleSaveItem(t, t2) ==
  /\ tabValue = ActionItemsTab
  /\ DialogOpen
  /\ LET list == ActionItemsOf(meetingData)
     IN IF items.editingItem # <<>>
        THEN LET index == FindIndex(list, items.editingItem[1].id)
             IN /\ t = now /\ t2 = now   \* the clock is not read
                /\ UNCHANGED now
                /\ StoreCallBy("handleSaveItem", items.editingItem,
                     [actionItems |-> IF index # 0
                                      THEN [list EXCEPT ![index] = items.itemForm @@ @]
                                      ELSE list])
        ELSE /\ t \in now..MaxClock
             /\ ReadClock(t2)
             /\ t2 >= t
             /\ StoreCallBy("handleSaveItem", items.editingItem,
                  [actionItems |-> Append(list, [extracted_at |-> IsoString(t2)]
                                                  @@ items.itemForm @@ [id |-> t])])
  /\ items' = [items EXCEPT !.editDialog = FALSE, !.newItemDialog = FALSE]
  /\ blocked' = ""
  /\ UNCHANGED itemsRest

\* a filter that keeps the items whose id is greater
FilterAbove(list, itemId) ==
  LET Above(item) == item.id > itemId
  IN SelectSeq(list, Above)

\* actionItems.filter(item => item.id !== itemId)
FilterOut(list, itemId) ==
  LET Other(item) == item.id # itemId
  IN SelectSeq(list, Other)

handleDeleteItem(itemId) ==
  /\ tabValue = ActionItemsTab
  /\ ~DialogOpen
  /\ StoreCallBy("handleDeleteItem", <<itemId>>,
                 [actionItems |-> FilterOut(ActionItemsOf(meetingData), itemId)])
  /\ blocked' = ""
  /\ UNCHANGED <<itemsRest, items, now>>

\* a toggle that goes back from in_progress
NextStatusBackAndForth(item) ==
  LET currentStatus == IF Falsy(Get(item, "status")) THEN "pending" ELSE item.status
  IN IF currentStatus = "pending" THEN "in_progress" ELSE "pending"

\* const currentStatus = item.status || 'pending'; pending -> in_progress,
\* in_progress -> completed, anything else -> pending
NextStatus(item) ==
  LET currentStatus == IF Falsy(Get(item, "status")) THEN "pending" ELSE item.status
  IN IF currentStatus = "pending" THEN "in_progress"
     ELSE IF currentStatus = "in_progress" THEN "completed"
     ELSE "pending"

\* the map of toggleItemStatus: { ...item, status: newStatus } for every item with the id
Toggled(list, itemId) ==
  [k \in DOMAIN list |->
     IF list[k].id = itemId THEN [status |-> NextStatus(list[k])] @@ list[k] ELSE list[k]]

toggleItemStatus(itemId) ==
  /\ tabValue = ActionItemsTab
  /\ ~DialogOpen
  /\ StoreCallBy("toggleItemStatus", <<itemId>>,
                 [actionItems |-> Toggled(ActionItemsOf(meetingData), itemId)])
  /\ blocked' = ""
  /\ UNCHANGED <<itemsRest, items, now>>


(***************************************************************************)
(* EmailSender view.  Addresses and the recipient input are sequences of   *)
(* one-character strings.                                                  *)
(***************************************************************************)
IsSpace(c) == c = " "

RECURSIVE TrimLeft(_)
TrimLeft(s) == IF s # <<>> /\ IsSpace(Head(s)) THEN TrimLeft(Tail(s)) ELSE s

RECURSIVE TrimRight(_)
TrimRight(s) ==
  IF s # <<>> /\ IsSpace(s[Len(s)]) THEN TrimRight(SubSeq(s, 1, Len(s) - 1)) ELSE s

\* String.prototype.trim
Trim(s) == TrimRight(TrimLeft(s))

\* String.prototype.split(','): the pieces between commas, empty pieces included
RECURSIVE SplitComma(_)
SplitComma(s) ==
  IF \A i \in DOMAIN s : s[i] # ","
  THEN <<s>>
  ELSE LET i == CHOOSE j \in DOMAIN s : s[j] = "," /\ \A k \in 1..(j - 1) : s[k] # ","
       IN <<SubSeq(s, 1, i - 1)>> \o SplitComma(SubSeq(s, i + 1, Len(s)))

MapTrim(s) == [i \in DOMAIN s |-> Trim(s[i])]

\* /^[^\s@]+@[^\s@]+\.[^\s@]+$/.test(email)
isValidEmail(e) ==
  /\ \A i \in DOMAIN e : ~IsSpace(e[i])
  /\ Cardinality({i \in DOMAIN e : e[i] = "@"}) = 1
  /\ LET at == CHOOSE i \in DOMAIN e : e[i] = "@"
     IN /\ at > 1
        /\ \E d \in (at + 2)..(Len(e) - 1) : e[d] = "."

\* a list that keeps repeated entries
KeepAll(s) == s

\* [...new Set(s)]: first occurrences, in order
RECURSIVE Dedupe(_)
Dedupe(s) ==
  IF s = <<>> THEN <<>>
  ELSE LET init == Dedupe(SubSeq(s, 1, Len(s) - 1))
           last == s[Len(s)]
       IN IF \E i \in DOMAIN init : init[i] = last THEN init ELSE Append(init, last)

AddrA == <<"a", "@", "b", ".", "c">>

SenderEmails == {"me@x.io"}
SenderPasswords == {"pw"}
RecipientInputs == {AddrA}

CredentialsFirstMsg == "Please enter email credentials first."
CredentialsMsg == "Please enter email credentials."
NoMeetingDataMsg ==
  "No meeting data available. Please generate a summary or extract action items first."
NoRecipientMsg == "Please add at least one recipient."
TestFallback == "Email connection test failed."
SendFallback == "Failed to send email."
PreviewFailedMsg == "Failed to generate email preview."
TestOkMsg == "Email connection test successful!"
SentOkMsg(n) == "Email sent successfully to " \o ToString(n) \o " recipient(s)!"
\* the text of a character sequence
RECURSIVE Text(_)
Text(cs) == IF cs = <<>> THEN "" ELSE Head(cs) \o Text(Tail(cs))

\* Array.prototype.join(', ')
RECURSIVE JoinComma(_)
JoinComma(s) ==
  IF s = <<>> THEN ""
  ELSE IF Len(s) = 1 THEN Text(s[1])
  ELSE Text(s[1]) \o ", " \o JoinComma(Tail(s))

InvalidMsg(invalid) == "Invalid email addresses: " \o JoinComma(invalid)

emailRest == <<tab, meetingData, trans, summ, items, dash, cal,
               localStorage, now>>

\* onChange of the Sender Email and App Password fields
setSenderEmail(v) ==
  /\ tabValue = EmailTab
  /\ email' = [email EXCEPT !.emailForm.senderEmail = v]
  /\ blocked' = ""
  /\ storeCall' = <<>>
  /\ UNCHANGED <<emailRest, inflight>>

setSenderPassword(v) ==
  /\ tabValue = EmailTab
  /\ email' = [email EXCEPT !.emailForm.senderPassword = v]
  /\ blocked' = ""
  /\ storeCall' = <<>>
  /\ UNCHANGED <<emailRest, inflight>>

setRecipientInput(v) ==
  /\ tabValue = EmailTab
  /\ email' = [email EXCEPT !.recipientInput = v]
  /\ blocked' = ""
  /\ storeCall' = <<>>
  /\ UNCHANGED <<emailRest, inflight>>

NonEmpty(s) == s # <<>>

Invalid(e) == ~isValidEmail(e)

\* an Add that takes the well-formed addresses of an input that also holds malformed ones
addRecipientKeepingValid ==
  /\ tabValue = EmailTab
  /\ IF Trim(email.recipientInput) = <<>>
     THEN UNCHANGED email
     ELSE LET emails == SelectSeq(MapTrim(SplitComma(email.recipientInput)), NonEmpty)
              validEmails == SelectSeq(emails, isValidEmail)
              invalidEmails == SelectSeq(emails, Invalid)
          IN email' = [email EXCEPT
                 !.emailForm.recipients = Dedupe(email.emailForm.recipients \o validEmails),
                 !.error = IF Len(invalidEmails) > 0 THEN InvalidMsg(invalidEmails) ELSE ""]
  /\ blocked' = ""
  /\ storeCall' = <<>>
  /\ UNCHANGED <<emailRest, inflight>>

addRecipient ==
  /\ tabValue = EmailTab
  /\ IF Trim(email.recipientInput) = <<>>
     THEN UNCHANGED email
     ELSE LET emails == SelectSeq(MapTrim(SplitComma(email.recipientInput)), NonEmpty)
              validEmails == SelectSeq(emails, isValidEmail)
              invalidEmails == SelectSeq(emails, Invalid)
          IN IF Len(invalidEmails) > 0
             THEN email' = [email EXCEPT !.error = InvalidMsg(invalidEmails)]
             ELSE email' = [email EXCEPT
                    !.emailForm.recipients = Dedupe(email.emailForm.recipients \o validEmails),
                    !.recipientInput = <<>>,
                    !.error = ""]
  /\ blocked' = ""
  /\ storeCall' = <<>>
  /\ UNCHANGED <<emailRest, inflight>>

removeRecipient(emailToRemove) ==
  /\ tabValue = EmailTab
  /\ LET Other(e) == e # emailToRemove
     IN email' = [email EXCEPT !.emailForm.recipients = SelectSeq(@, Other)]
  /\ blocked' = ""
  /\ storeCall' = <<>>
  /\ UNCHANGED <<emailRest, inflight>>

NoCredentials == Falsy(email.emailForm.senderEmail) \/ Falsy(email.emailForm.senderPassword)

\* disabled={sending || !emailForm.senderEmail || !emailForm.senderPassword}
TestDisabled == email.sending \/ NoCredentials

testConnection ==
  /\ tabValue = EmailTab
  /\ IF NoCredentials
     THEN /\ blocked' = "testConnection"
          /\ storeCall' = <<>>
          /\ email' = [email EXCEPT !.error = CredentialsFirstMsg]
          /\ UNCHANGED inflight
     ELSE /\ CanIssue
          /\ blocked' = ""
          /\ storeCall' = <<>>
          /\ email' = [email EXCEPT !.sending = TRUE, !.error = ""]
          /\ inflight' = Append(inflight, Request("testEmail"))
  /\ UNCHANGED emailRest

TestResults == {[success |-> TRUE], [success |-> FALSE]}

testConnectionResolved(i, data) ==
  /\ i \in Pending("testEmail")
  /\ email' = IF inflight[i].live
              THEN [email EXCEPT !.success = IF data.success THEN TestOkMsg ELSE @,
                                 !.sending = FALSE]
              ELSE email
  /\ inflight' = RemoveAt(inflight, i)
  /\ blocked' = ""
  /\ storeCall' = <<>>
  /\ UNCHANGED emailRest

testConnectionRejected(i, err) ==
  /\ i \in Pending("testEmail")
  /\ email' = IF inflight[i].live
              THEN [email EXCEPT !.error = ErrorText(err, TestFallback), !.sending = FALSE]
              ELSE email
  /\ inflight' = RemoveAt(inflight, i)
  /\ blocked' = ""
  /\ storeCall' = <<>>
  /\ UNCHANGED emailRest

\* setTimeout(() => setSuccess(''), ...)
successTimeout ==
  /\ tabValue = EmailTab
  /\ email.success # ""
  /\ email' = [email EXCEPT !.success = ""]
  /\ blocked' = ""
  /\ storeCall' = <<>>
  /\ UNCHANGED <<emailRest, inflight>>

previewEmail ==
  /\ tabValue = EmailTab
  /\ CanIssue
  /\ inflight' = Append(inflight, Request("previewEmail"))
  /\ blocked' = ""
  /\ storeCall' = <<>>
  /\ UNCHANGED <<emailRest, email>>

PreviewResults == {[html_template |-> "<html>"]}

previewEmailResolved(i, data) ==
  /\ i \in Pending("previewEmail")
  /\ email' = IF inflight[i].live
              THEN [email EXCEPT !.previewHtml = Get(data, "html_template"),
                                 !.previewDialog = TRUE]
              ELSE email
  /\ inflight' = RemoveAt(inflight, i)
  /\ blocked' = ""
  /\ storeCall' = <<>>
  /\ UNCHANGED emailRest

previewEmailRejected(i, err) ==
  /\ i \in Pending("previewEmail")
  /\ email' = IF inflight[i].live THEN [email EXCEPT !.error = PreviewFailedMsg] ELSE email
  /\ inflight' = RemoveAt(inflight, i)
  /\ blocked' = ""
  /\ storeCall' = <<>>
  /\ UNCHANGED emailRest

closePreview ==
  /\ tabValue = EmailTab
  /\ email.previewDialog
  /\ email' = [email EXCEPT !.previewDialog = FALSE]
  /\ blocked' = ""
  /\ storeCall' = <<>>
  /\ UNCHANGED <<emailRest, inflight>>

\* !meetingData.summary && !meetingData.actionItems?.length
NoMeetingContent ==
  Falsy(Get(meetingData, "summary")) /\ Len(GetOr(meetingData, "actionItems", <<>>)) = 0

\* disabled={!canSendEmail() || sending}
SendDisabled ==
  \/ email.sending
  \/ NoCredentials
  \/ Len(email.emailForm.recipients) = 0
  \/ NoMeetingContent

sendEmail ==
  /\ tabValue = EmailTab
  /\ IF NoMeetingContent
     THEN /\ blocked' = "sendEmail"
          /\ storeCall' = <<>>
          /\ email' = [email EXCEPT !.error = NoMeetingDataMsg]
          /\ UNCHANGED inflight
     ELSE IF NoCredentials
     THEN /\ blocked' = "sendEmail"
          /\ storeCall' = <<>>
          /\ email' = [email EXCEPT !.error = CredentialsMsg]
          /\ UNCHANGED inflight
     ELSE IF Len(email.emailForm.recipients) = 0
     THEN /\ blocked' = "sendEmail"
          /\ storeCall' = <<>>
          /\ email' = [email EXCEPT !.error = NoRecipientMsg]
          /\ UNCHANGED inflight
     ELSE /\ CanIssue
          /\ blocked' = ""
          /\ storeCall' = <<>>
          /\ email' = [email EXCEPT !.sending = TRUE, !.error = "", !.success = ""]
          /\ inflight' = Append(inflight,
                [op |-> "sendEmail", live |-> TRUE, count |-> Len(email.emailForm.recipients)])
  /\ UNCHANGED emailRest

\* a success path that empties the summary once the digest is sent
sendEmailResolvedClearing(i, data) ==
  /\ i \in Pending("sendEmail")
  /\ email' = IF inflight[i].live
              THEN [email EXCEPT
                      !.success = IF data.success THEN SentOkMsg(inflight[i].count) ELSE @,
                      !.sending = FALSE]
              ELSE email
  /\ inflight' = RemoveAt(inflight, i)
  /\ blocked' = ""
  /\ storeCall' = <<>>
  /\ meetingData' = Merge(meetingData, [summary |-> ""])
  /\ UNCHANGED <<tab, trans, summ, items, dash, cal, localStorage, now>>

sendEmailResolved(i, data) ==
  /\ i \in Pending("sendEmail")
  /\ email' = IF inflight[i].live
              THEN [email EXCEPT
                      !.success = IF data.success THEN SentOkMsg(inflight[i].count) ELSE @,
                      !.sending = FALSE]
              ELSE email
  /\ inflight' = RemoveAt(inflight, i)
  /\ blocked' = ""
  /\ storeCall' = <<>>
  /\ UNCHANGED emailRest

sendEmailRejected(i, err) ==
  /\ i \in Pending("sendEmail")
  /\ email' = IF inflight[i].live
              THEN [email EXCEPT !.error = ErrorText(err, SendFallback), !.sending = FALSE]
              ELSE email
  /\ inflight' = RemoveAt(inflight, i)
  /\ blocked' = ""
  /\ storeCall' = <<>>
  /\ UNCHANGED emailRest


(***************************************************************************)
(* CalendarSync view (the OAuth flow is a local 2 s timer that never       *)
(* rejects)                                                                *)
(***************************************************************************)
calendarProviders ==
  <<[id |-> "google", name |-> "Google Calendar", color |-> "bg-blue-500"],
    [id |-> "outlook", name |-> "Microsoft Outlook", color |-> "bg-orange-500"],
    [id |-> "apple", name |-> "Apple Calendar", color |-> "bg-gray-800"]>>

\* the providers the user clicks on
ClickedProviders == {"google"}

Provider(providerId) ==
  calendarProviders[CHOOSE i \in DOMAIN calendarProviders : calendarProviders[i].id = providerId]

\* the props App passes to the component of every tab:
\* <tab.component meetingData={meetingData} updateMeetingData={updateMeetingData} />
TabProps == [meetingData |-> meetingData, updateMeetingData |-> "updateMeetingData"]

\* CalendarSync = ({ actionItems = [], meetingSummary = null }): the prop, or its default
CalendarSyncActionItems == GetOr(TabProps, "actionItems", <<>>)

calRest == <<tab, meetingData, trans, summ, items, dash, email>>

\* disabled={isConnecting || connectedCalendars.some(cal => cal.providerId === provider.id)}
ConnectDisabled(providerId) ==
  \/ cal.isConnecting
  \/ \E i \in DOMAIN cal.connectedCalendars : cal.connectedCalendars[i].providerId = providerId

\* the request keeps the connectedCalendars of the render that issued it
connectCalendar(providerId) ==
  /\ tabValue = CalendarTab
  /\ CanIssue
  /\ cal' = [cal EXCEPT !.isConnecting = TRUE]
  /\ inflight' = Append(inflight, [op |-> "connect", live |-> TRUE, providerId |-> providerId,
                                   snapshot |-> cal.connectedCalendars])
  /\ blocked' = ""
  /\ storeCall' = <<>>
  /\ UNCHANGED <<calRest, localStorage, now>>

connectCalendarResolved(i, t) ==
  /\ i \in Pending("connect")
  /\ ReadClock(t)
  /\ LET providerId == inflight[i].providerId
         newCalendar == [id |-> providerId \o "_" \o ToString(t),
                         providerId |-> providerId,
                         name |-> Provider(providerId).name,
                         email |-> "user@" \o providerId \o ".com",
                         connected |-> TRUE,
                         color |-> Provider(providerId).color]
         updated == Append(inflight[i].snapshot, newCalendar)
     IN /\ cal' = IF inflight[i].live
                  THEN [connectedCalendars |-> updated, isConnecting |-> FALSE]
                  ELSE cal
        /\ localStorage' = updated
  /\ inflight' = RemoveAt(inflight, i)
  /\ blocked' = ""
  /\ storeCall' = <<>>
  /\ UNCHANGED calRest

disconnectCalendar(calendarId) ==
  /\ tabValue = CalendarTab
  /\ \E i \in DOMAIN cal.connectedCalendars : cal.connectedCalendars[i].id = calendarId
  /\ LET Other(c) == c.id # calendarId
         updated == SelectSeq(cal.connectedCalendars, Other)
     IN /\ cal' = [cal EXCEPT !.connectedCalendars = updated]
        /\ localStorage' = updated
  /\ blocked' = ""
  /\ storeCall' = <<>>
  /\ UNCHANGED <<calRest, inflight, now>>

(***************************************************************************)
(* Specifications                                                          *)
(***************************************************************************)
ProgressValues == {50}

\* the pending promise at position i resolves or rejects
Settle(i) ==
  \/ \E r \in TranscribeResults : handleUploadResolved(i, r)
  \/ \E e \in Errors : handleUploadRejected(i, e)
  \/ \E r \in ProcessResults : handleCompleteProcessResolved(i, r)
  \/ \E e \in Errors : handleCompleteProcessRejected(i, e)
  \/ \E r \in SummarizeResults : generateSummaryResolved(i, r)
  \/ \E e \in Errors : generateSummaryRejected(i, e)
  \/ \E r \in ExtractResults : extractActionItemsResolved(i, r)
  \/ \E e \in Errors : extractActionItemsRejected(i, e)
  \/ \E r \in SentimentResults : analyzeSentimentResolved(i, r)
  \/ \E e \in Errors : analyzeSentimentRejected(i, e)
  \/ \E r \in TestResults : testConnectionResolved(i, r)
  \/ \E e \in Errors : testConnectionRejected(i, e)
  \/ \E r \in TestResults : sendEmailResolved(i, r)
  \/ \E e \in Errors : sendEmailRejected(i, e)
  \/ \E t \in 0..MaxClock : connectCalendarResolved(i, t)

\* what happens without a click on a dispatch control: tab changes, typing,
\* timers, and the settling of pending promises in any order
Environment ==
  \/ \E t \in Tabs : handleTabChange(t)
  \/ \E f \in Files : onDrop(f)
  \/ \E m \in DropRejectedMsgs : onDropRejected(m)
  \/ \E i \in DOMAIN inflight, pc \in ProgressValues : onUploadProgress(i, pc)
  \/ clearAll
  \/ \E v \in SenderEmails : setSenderEmail(v)
  \/ \E v \in SenderPasswords : setSenderPassword(v)
  \/ \E v \in RecipientInputs : setRecipientInput(v)
  \/ addRecipient
  \/ \E i \in DOMAIN email.emailForm.recipients : removeRecipient(email.emailForm.recipients[i])
  \/ successTimeout
  \/ \E i \in DOMAIN cal.connectedCalendars : disconnectCalendar(cal.connectedCalendars[i].id)
  \/ \E i \in DOMAIN inflight : Settle(i)

\* the user clicks a dispatch control that is not disabled
Click ==
  \/ ~UploadDisabled /\ handleUpload
  \/ ~UploadDisabled /\ handleCompleteProcess
  \/ ~SummaryDisabled /\ generateSummary
  \/ ~ExtractDisabled /\ extractActionItems
  \/ ~AnalyzeDisabled /\ analyzeSentiment
  \/ ~TestDisabled /\ testConnection
  \/ ~SendDisabled /\ sendEmail
  \/ \E p \in ClickedProviders : ~ConnectDisabled(p) /\ connectCalendar(p)

Next == Environment \/ Click

Spec == Init /\ [][Next]_vars

\* every request eventually resolves or rejects: the oldest pending promise is
\* always settled in the end
SpecLive == Spec /\ WF_vars(Settle(1))

\* a handler with a precondition check is invoked whether or not its inputs are
\* there (the check that the disabled control makes unreachable for a click), as
\* long as its view is not busy
Call ==
  \/ ~trans.uploading /\ handleUpload
  \/ ~trans.uploading /\ handleCompleteProcess
  \/ ~summ.loading /\ generateSummary
  \/ ~items.loading /\ extractActionItems
  \/ ~dash.loading /\ analyzeSentiment
  \/ ~email.sending /\ testConnection
  \/ ~email.sending /\ sendEmail
  \/ \E p \in ClickedProviders : ~ConnectDisabled(p) /\ connectCalendar(p)

NextCall == Environment \/ Call

SpecCall == Init /\ [][NextCall]_vars


(***************************************************************************)
(* The Action Items tab on its own: the session has reached the tab        *)
(* without a transcript, with or without a complete processing started on  *)
(* the Transcription tab still pending, and the user works on the item     *)
(* list while responses arrive.  extractActionItems is invoked whether or  *)
(* not the transcript is there.                                            *)
(***************************************************************************)
ItemOdd == [id |-> 3, task |-> "Review budget", assignee |-> "Sam", deadline |-> "TBD",
            priority |-> "Medium", status |-> "done", extracted_at |-> "e3"]

ItemBare == [id |-> 4, task |-> "Email client", assignee |-> "Kim", deadline |-> "TBD",
             priority |-> "Low", extracted_at |-> "e4"]

ItemBlank == [id |-> 5, task |-> "Fix build", assignee |-> "Ola", deadline |-> "TBD",
              priority |-> "High", status |-> "", extracted_at |-> "e5"]

ItemsExtractResults ==
  {[action_items |-> <<ItemA>>], [action_items |-> <<ItemOdd>>],
   [action_items |-> <<ItemBare>>], [action_items |-> <<ItemBlank>>], EmptyObject}

\* responses of /process-complete with and without action items
ItemsProcessResults ==
  ProcessResults \cup {[transcript |-> "t2", segments |-> <<"g2">>, summary |-> "s2"]}

\* the failure the two calls meet here
ItemsErrors == {[detail |-> "boom"]}

\* ids of the items in the list
IdsOf(list) == {list[k].id : k \in DOMAIN list}

\* an id that no item carries: no response holds it and no clock reading reaches it
OtherIds == {9}

InitItems ==
  /\ tabValue = ActionItemsTab
  /\ tabChanges = 1
  /\ meetingData = InitialMeetingData
  /\ trans = InitialTrans
  /\ summ = InitialSumm
  /\ items = InitialItems
  /\ dash = InitialDash
  /\ email = InitialEmail
  /\ cal = MountedCal(<<>>)
  /\ localStorage = <<>>
  /\ inflight \in {<<>>, <<Orphan(Request("process"))>>}
  /\ now = 0
  /\ blocked = ""
  /\ storeCall = <<>>

\* the steps of the view; an item is added by hand to a list shorter than room
ItemsStep(room) ==
  \/ ~items.loading /\ ~DialogOpen /\ extractActionItems
  \/ \E i \in DOMAIN inflight, r \in ItemsExtractResults : extractActionItemsResolved(i, r)
  \/ \E i \in DOMAIN inflight, e \in ItemsErrors : extractActionItemsRejected(i, e)
  \/ \E i \in DOMAIN inflight, r \in ItemsProcessResults : handleCompleteProcessResolved(i, r)
  \/ \E i \in DOMAIN inflight, e \in ItemsErrors : handleCompleteProcessRejected(i, e)
  \/ \E k \in DOMAIN ActionItemsOf(meetingData) : handleEditItem(ActionItemsOf(meetingData)[k])
  \/ handleAddNewItem
  \/ \E v \in TaskInputs : setItemForm("task", v)
  \/ \E v \in StatusInputs : setItemForm("status", v)
  \/ closeEditDialog
  \/ closeNewItemDialog
  \/ /\ items.editingItem = <<>> => Len(ActionItemsOf(meetingData)) < room
     /\ \E t \in 0..MaxClock, t2 \in 0..MaxClock : handleSaveItem(t, t2)
  \/ \E itemId \in IdsOf(ActionItemsOf(meetingData)) \cup OtherIds : handleDeleteItem(itemId)
  \/ \E k \in DOMAIN ActionItemsOf(meetingData) :
       toggleItemStatus(ActionItemsOf(meetingData)[k].id)

NextItems == ItemsStep(MaxItems)

SpecItems == InitItems /\ [][NextItems]_vars

\* the same view with room for one more item, so that two items added by hand meet
NextAdds == ItemsStep(MaxItems + 1)

SpecAdds == InitItems /\ [][NextAdds]_vars

\* the view with its dialogs: items arrive from /process-complete and from an
\* extraction, are added by hand and edited
InitEdits == InitItems

NextEdits ==
  \/ \E i \in DOMAIN inflight, r \in ItemsProcessResults : handleCompleteProcessResolved(i, r)
  \/ ~items.loading /\ ~DialogOpen /\ extractActionItems
  \/ \E i \in DOMAIN inflight, r \in ItemsExtractResults : extractActionItemsResolved(i, r)
  \/ \E k \in DOMAIN ActionItemsOf(meetingData) : handleEditItem(ActionItemsOf(meetingData)[k])
  \/ handleAddNewItem
  \/ \E v \in TaskInputs : setItemForm("task", v)
  \/ \E v \in StatusInputs : setItemForm("status", v)
  \/ closeEditDialog
  \/ closeNewItemDialog
  \/ /\ items.editingItem = <<>> => Len(ActionItemsOf(meetingData)) <= MaxItems
     /\ \E t \in 0..MaxClock, t2 \in 0..MaxClock : handleSaveItem(t, t2)

SpecEdits == InitEdits /\ [][NextEdits]_vars

\* the Calendar view: any provider is connected, any connected calendar is
\* disconnected, the OAuth timer fires, the user changes tab
InitCalendar ==
  /\ tabValue = CalendarTab
  /\ tabChanges = 1
  /\ meetingData = InitialMeetingData
  /\ trans = InitialTrans
  /\ summ = InitialSumm
  /\ items = InitialItems
  /\ dash = InitialDash
  /\ email = InitialEmail
  /\ cal = MountedCal(<<>>)
  /\ localStorage = <<>>
  /\ inflight = <<>>
  /\ now = 0
  /\ blocked = ""
  /\ storeCall = <<>>

NextCalendar ==
  \/ \E k \in DOMAIN calendarProviders :
       ~ConnectDisabled(calendarProviders[k].id) /\ connectCalendar(calendarProviders[k].id)
  \/ \E i \in DOMAIN inflight, t \in 0..MaxClock : connectCalendarResolved(i, t)
  \/ \E i \in DOMAIN cal.connectedCalendars : disconnectCalendar(cal.connectedCalendars[i].id)
  \/ \E t \in Tabs : handleTabChange(t)

SpecCalendar == InitCalendar /\ [][NextCalendar]_vars

(***************************************************************************)
(* The store on its own: any view may hand any partial to                  *)
(* updateMeetingData.  SpecStore starts from a store that merges have      *)
(* filled and applies one partial of up to MaxPartialKeys keys.            *)
(***************************************************************************)
SentimentB == [sentiment_timeline |-> "timeline"]

ItemB == [id |-> 2, task |-> "Book room", assignee |-> "Lee", deadline |-> "2024-01-22",
          priority |-> "Low", status |-> "completed", extracted_at |-> "e2"]

\* the values a view may supply for a field
FieldValues(k) ==
  CASE k = "transcript" -> <<"", "t1">>
    [] k = "segments" -> <<<<"g1">>>>
    [] k = "summary" -> <<"", "x">>
    [] k = "actionItems" -> <<<<>>, <<ItemA>>, <<ItemB>>>>
    [] k = "sentiment" -> <<EmptyObject, SentimentA, SentimentB>>
    [] k = "participation" -> <<EmptyObject, ParticipationA>>
    [] k = "language" -> <<"en">>
    [] k = "duration" -> <<"95">>
    [] k = "speakerCount" -> <<"2">>

PartialsOver(S) ==
  {[k \in S |-> FieldValues(k)[c[k]]] :
     c \in {d \in [S -> 1..3] : \A k \in S : d[k] <= Len(FieldValues(k))}}

\* partials of at most n keys
Partials(n) == UNION {PartialsOver(S) : S \in {T \in SUBSET Fields : Cardinality(T) <= n}}

InitStore ==
  /\ \E p \in Partials(Cardinality(Fields)) : meetingData = Merge(InitialMeetingData, p)
  /\ tabValue = TranscriptionTab
  /\ trans = InitialTrans
  /\ summ = InitialSumm
  /\ items = InitialItems
  /\ dash = InitialDash
  /\ email = InitialEmail
  /\ cal = MountedCal(<<>>)
  /\ localStorage = <<>>
  /\ inflight = <<>>
  /\ now = 0
  /\ tabChanges = 0
  /\ blocked = ""
  /\ storeCall = <<>>

StoreUpdate(p) ==
  /\ storeCall = <<>>
  /\ StoreCallBy("updateMeetingData", [base |-> meetingData, partial |-> p], p)
  /\ UNCHANGED <<tabValue, tabChanges, trans, summ, items, dash, email, cal, localStorage,
                 inflight, now, blocked>>

NextStore == \E p \in Partials(MaxPartialKeys) : StoreUpdate(p)

SpecStore == InitStore /\ [][NextStore]_vars

\* C1: after updateMeetingData(partial), every field the partial does not name has
\* the value it had before the merge, and no field appears or disappears except
\* the ones the partial names
C1_MergeKeepsOtherFields ==
  \A i \in DOMAIN storeCall :
    /\ DOMAIN meetingData = DOMAIN storeCall[i].arg.base \cup DOMAIN storeCall[i].arg.partial
    /\ \A k \in DOMAIN storeCall[i].arg.base \ DOMAIN storeCall[i].arg.partial :
         meetingData[k] = storeCall[i].arg.base[k]

\* {summary: 'x'} merged into a store that holds a transcript and action items
C1_Witness ==
  /\ storeCall # <<>>
  /\ storeCall[1].arg.partial = [summary |-> "x"]
  /\ storeCall[1].arg.base.transcript = "t1"
  /\ storeCall[1].arg.base.summary = ""
  /\ storeCall[1].arg.base.actionItems = <<ItemA>>
  /\ meetingData.transcript = "t1"
  /\ meetingData.actionItems = <<ItemA>>

\* C2: after updateMeetingData(partial), every field the partial names equals
\* exactly the supplied value: objects are not deep-merged, arrays not concatenated
C2_MergeReplacesNamedFields ==
  \A i \in DOMAIN storeCall :
    \A k \in DOMAIN storeCall[i].arg.partial : meetingData[k] = storeCall[i].arg.partial[k]

\* a sentiment object and an item list replaced by different non-empty ones
C2_Witness ==
  /\ storeCall # <<>>
  /\ storeCall[1].arg.base.sentiment = SentimentA
  /\ storeCall[1].arg.base.actionItems = <<ItemA>>
  /\ storeCall[1].arg.partial = [sentiment |-> SentimentB, actionItems |-> <<ItemB>>]
  /\ meetingData.sentiment = SentimentB
  /\ meetingData.actionItems = <<ItemB>>

(***************************************************************************)
(* Failed calls                                                            *)
(***************************************************************************)
\* the catch path of one of the seven backend-calling operations
Failure(i, err) ==
  \/ handleUploadRejected(i, err)
  \/ handleCompleteProcessRejected(i, err)
  \/ generateSummaryRejected(i, err)
  \/ extractActionItemsRejected(i, err)
  \/ analyzeSentimentRejected(i, err)
  \/ testConnectionRejected(i, err)
  \/ sendEmailRejected(i, err)

\* C3: when the call of a backend-calling operation fails (the step in which
\* request i leaves the pending ones by its catch path), the shared MeetingData
\* is what it was right before the call completed
C3_FailureKeepsMeetingData ==
  [][\A i \in DOMAIN inflight :
       inflight' = RemoveAt(inflight, i) =>
         \A err \in Errors : Failure(i, err) => meetingData' = meetingData]_vars

\* a sentiment analysis failed while the store held a transcript
C3_Witness ==
  /\ dash.error = SentimentFallback
  /\ ~dash.loading
  /\ Get(meetingData, "transcript") = "t1"

\* the banner a failure must show: the server's detail if it carries one
Banner(err, fallback) ==
  IF err.detail # Undefined /\ err.detail # "" THEN err.detail ELSE fallback

\* C4: when a dispatched call fails, the error banner of the view that shows the
\* operation is the server's detail message if the failure carries one and the
\* operation's fallback message otherwise; a failed summarize leaves summary alone
C4_FailureSetsBanner ==
  [][\A i \in DOMAIN inflight :
       inflight' = RemoveAt(inflight, i) =>
         \A err \in Errors :
           /\ handleUploadRejected(i, err) /\ inflight[i].live
                => trans'.error = Banner(err, TranscribeFallback)
           /\ handleCompleteProcessRejected(i, err) /\ inflight[i].live
                => trans'.error = Banner(err, ProcessFallback)
           /\ generateSummaryRejected(i, err) /\ inflight[i].live
                => summ'.error = Banner(err, SummaryFallback)
           /\ generateSummaryRejected(i, err)
                => Get(meetingData', "summary") = Get(meetingData, "summary")
           /\ extractActionItemsRejected(i, err) /\ inflight[i].live
                => items'.error = Banner(err, ExtractFallback)
           /\ analyzeSentimentRejected(i, err) /\ inflight[i].live
                => dash'.error = Banner(err, SentimentFallback)
           /\ testConnectionRejected(i, err) /\ inflight[i].live
                => email'.error = Banner(err, TestFallback)
           /\ sendEmailRejected(i, err) /\ inflight[i].live
                => email'.error = Banner(err, SendFallback)]_vars

\* a summarize call failed with {detail: 'boom'} after an earlier one had succeeded
C4_Witness ==
  /\ summ.error = "boom"
  /\ ~summ.loading
  /\ Get(meetingData, "summary") = "s1"

(***************************************************************************)
(* Calls with missing inputs                                               *)
(***************************************************************************)
\* C5: a dispatch operation invoked while its required inputs are absent reports a
\* blocking message in its view and issues no network call.  blocked' names the
\* handler that took its early return in this step.
C5_MissingInputsBlockWithMessage ==
  [][blocked' # "" =>
       /\ inflight' = inflight
       /\ blocked' \in {"handleUpload", "handleCompleteProcess"} => trans'.error # ""
       /\ blocked' = "generateSummary" => summ'.error # ""
       /\ blocked' = "extractActionItems" => items'.error # ""
       /\ blocked' = "analyzeSentiment" => dash'.error # ""
       /\ blocked' \in {"testConnection", "sendEmail"} => email'.error # ""]_vars

\* C6: extractActionItems called while the transcript is the empty string sets the
\* error to the no-transcript message, issues no request, does not set loading
\* and leaves actionItems unchanged
C6_ExtractWithoutTranscript ==
  [][extractActionItems /\ Get(meetingData, "transcript") = "" =>
       /\ items'.error = "No transcript available. Please transcribe an audio file first."
       /\ inflight' = inflight
       /\ ~items'.loading
       /\ GetOr(meetingData', "actionItems", <<>>) = GetOr(meetingData, "actionItems", <<>>)]_vars

\* the call was made with an empty transcript while the store held an item
C6_Witness ==
  /\ blocked = "extractActionItems"
  /\ Get(meetingData, "transcript") = ""
  /\ items.error = NoTranscriptMsg
  /\ Len(ActionItemsOf(meetingData)) = 1
  /\ Pending("extract") = {}

(***************************************************************************)
(* Toggling the status of an item                                          *)
(***************************************************************************)
StatusValues == {"pending", "in_progress", "completed"}

HasStatusValue(item) == "status" \in DOMAIN item /\ item.status \in StatusValues

\* pending -> in_progress -> completed -> pending
Cycle(status) ==
  CASE status = "pending" -> "in_progress"
    [] status = "in_progress" -> "completed"
    [] status = "completed" -> "pending"

\* C9: toggling moves an item with one of the three statuses one step along
\* pending -> in_progress -> completed -> pending, and toggling its id three
\* times gives the item its original status back
C9_ToggleCycles ==
  [][\A k0 \in DOMAIN ActionItemsOf(meetingData) :
       LET before == ActionItemsOf(meetingData)
           after == ActionItemsOf(meetingData')
           itemId == before[k0].id
       IN toggleItemStatus(itemId) =>
            /\ Len(after) = Len(before)
            /\ \A k \in DOMAIN before :
                 before[k].id = itemId /\ HasStatusValue(before[k]) =>
                   /\ after[k].status = Cycle(before[k].status)
                   /\ Toggled(Toggled(after, itemId), itemId)[k] = before[k]]_vars

\* the extracted item after two toggles
C9_Witness ==
  /\ Len(ActionItemsOf(meetingData)) = 1
  /\ ActionItemsOf(meetingData)[1] = [ItemA EXCEPT !.status = "completed"]

\* C10: an item whose status is absent, empty or outside the three values is
\* toggled like a pending item: one toggle gives it the status in_progress
C10_UnknownStatusToggledAsPending ==
  [][\A k0 \in DOMAIN ActionItemsOf(meetingData) :
       LET before == ActionItemsOf(meetingData)
           after == ActionItemsOf(meetingData')
           itemId == before[k0].id
       IN toggleItemStatus(itemId) =>
            \A k \in DOMAIN before :
              before[k].id = itemId /\ ~HasStatusValue(before[k]) =>
                after[k].status = "in_progress"]_vars

(***************************************************************************)
(* Busy flags and requests in flight                                       *)
(***************************************************************************)
\* the busy flags of the view that shows operation op are all false in state s
FlagsClear(op, t, su, it, d, e, c) ==
  /\ op \in {"transcribe", "process"} => ~t.uploading /\ ~t.processing
  /\ op = "summarize" => ~su.loading
  /\ op = "extract" => ~it.loading
  /\ op = "sentiment" => ~d.loading
  /\ op \in {"testEmail", "sendEmail"} => ~e.sending
  /\ op = "connect" => ~c.isConnecting

\* C7: a busy flag is false in the state right after the call of its mounted view
\* completes, by success or by failure, and, every request being settled in the
\* end, a busy flag that is true eventually becomes false (flag ~> ~flag, that
\* is, []<>~flag)
C7_BusyFlagsCleared ==
  /\ [][\A i \in DOMAIN inflight :
          inflight[i].live /\ inflight' = RemoveAt(inflight, i)
            => FlagsClear(inflight[i].op, trans', summ', items', dash', email', cal')]_vars
  /\ []<>~trans.uploading
  /\ []<>~trans.processing
  /\ []<>~summ.loading
  /\ []<>~items.loading
  /\ []<>~dash.loading
  /\ []<>~email.sending
  /\ []<>~cal.isConnecting

\* a connection test has completed in the Email view
C7_Witness ==
  /\ tabValue = EmailTab
  /\ email.success = TestOkMsg
  /\ ~email.sending
  /\ Pending("testEmail") = {}

Operations == {"transcribe", "process", "summarize", "extract", "sentiment",
               "testEmail", "sendEmail"}

\* C8: in every reachable state each backend-calling operation has at most one
\* request in flight
C8_OneRequestPerOperation ==
  \A op \in Operations : Cardinality(Pending(op)) <= 1

\* ---------------------------------------------------------------------------
\* The search field of the Action Items view.  Texts are sequences of
\* characters here, so that the comparison is computed character by character.
\* ---------------------------------------------------------------------------

Chars == {"a", "A", "b"}

\* the texts of at most n characters
Texts(n) == UNION {[1..m -> Chars] : m \in 0..n}

\* a comparison that keeps the case
KeepCase(cs) == cs

\* String.prototype.toLowerCase
ToLowerCase(cs) ==
  [i \in DOMAIN cs |-> CASE cs[i] = "A" -> "a"
                         [] cs[i] = "B" -> "b"
                         [] OTHER -> cs[i]]

\* String.prototype.includes
Includes(s, q) == \E i \in 0..(Len(s) - Len(q)) : SubSeq(s, i + 1, i + Len(q)) = q

\* the filter of the list that the view renders
filteredItems ==
  LET Shown(item) ==
        \/ Includes(ToLowerCase(item.task), ToLowerCase(items.searchQuery))
        \/ Includes(ToLowerCase(item.assignee), ToLowerCase(items.searchQuery))
  IN SelectSeq(ActionItemsOf(meetingData), Shown)

\* onChange of the search field
setSearchQuery(v) ==
  /\ tabValue = ActionItemsTab
  /\ items' = [items EXCEPT !.searchQuery = v]
  /\ blocked' = ""
  /\ storeCall' = <<>>
  /\ UNCHANGED <<itemsRest, meetingData, now>>

\* lists of at most two items: the first varies in its task, the second in its assignee
SearchLists ==
  LET First(t) == [id |-> 1, task |-> t, assignee |-> <<>>, deadline |-> "TBD",
                   priority |-> "High", status |-> "pending"]
      Second(a) == [id |-> 2, task |-> <<"b">>, assignee |-> a, deadline |-> "TBD",
                    priority |-> "Low", status |-> "completed"]
  IN {<<>>} \cup {<<First(t)>> : t \in Texts(MaxText)}
            \cup {<<First(t), Second(a)>> : t \in Texts(MaxText), a \in Texts(MaxText)}

InitSearch ==
  /\ tabValue = ActionItemsTab
  /\ tabChanges = 1
  /\ \E list \in SearchLists : meetingData = Merge(InitialMeetingData, [actionItems |-> list])
  /\ trans = InitialTrans
  /\ summ = InitialSumm
  /\ items = [InitialItems EXCEPT !.searchQuery = <<>>]
  /\ dash = InitialDash
  /\ email = InitialEmail
  /\ cal = MountedCal(<<>>)
  /\ localStorage = <<>>
  /\ inflight = <<>>
  /\ now = 0
  /\ blocked = ""
  /\ storeCall = <<>>

NextSearch == \E v \in Texts(MaxText) : setSearchQuery(v)

SpecSearch == InitSearch /\ [][NextSearch]_vars

\* ---------------------------------------------------------------------------
\* The recipients of the Email view: what the user types into the recipient
\* field, well-formed or not, Add and the removal of a chip.
\* ---------------------------------------------------------------------------

AddrB == <<"d", "@", "e", ".", "f">>

\* malformed: no '@'; no '.' after the '@'; a blank inside
Malformed == {<<"x">>, <<"a", "@", "b">>, <<"a", " ", "@", "b", ".", "c">>}

\* the pieces joined by commas, each after a blank but the first
RECURSIVE CommaList(_)
CommaList(pieces) ==
  IF Len(pieces) = 1 THEN pieces[1]
  ELSE pieces[1] \o <<",", " ">> \o CommaList(Tail(pieces))

\* what the user types: one or two addresses, well-formed or not, or blanks
TypedRecipients ==
  LET Pieces == {AddrA, AddrB} \cup Malformed
  IN {<<" ">>, <<",">>} \cup {CommaList(<<a>>) : a \in Pieces}
       \cup {CommaList(<<a, b>>) : a \in Pieces, b \in Pieces}

InitRecipients ==
  /\ tabValue = EmailTab
  /\ tabChanges = 1
  /\ meetingData = InitialMeetingData
  /\ trans = InitialTrans
  /\ summ = InitialSumm
  /\ items = InitialItems
  /\ dash = InitialDash
  /\ email = InitialEmail
  /\ cal = MountedCal(<<>>)
  /\ localStorage = <<>>
  /\ inflight = <<>>
  /\ now = 0
  /\ blocked = ""
  /\ storeCall = <<>>

NextRecipients ==
  \/ \E v \in TypedRecipients : setRecipientInput(v)
  \/ addRecipient
  \/ \E i \in DOMAIN email.emailForm.recipients : removeRecipient(email.emailForm.recipients[i])

SpecRecipients == InitRecipients /\ [][NextRecipients]_vars

\* ---------------------------------------------------------------------------
\* The Email tab on its own: the session has reached the tab with a summary
\* and action items in the store or with neither, and the user fills the
\* form, tests the connection, previews and sends while responses arrive.
\* ---------------------------------------------------------------------------

InitEmail ==
  /\ tabValue = EmailTab
  /\ tabChanges = 1
  /\ meetingData \in {InitialMeetingData,
                       Merge(InitialMeetingData, [transcript |-> "t1", summary |-> "s1",
                                                  actionItems |-> <<ItemA>>])}
  /\ trans = InitialTrans
  /\ summ = InitialSumm
  /\ items = InitialItems
  /\ dash = InitialDash
  /\ email = InitialEmail
  /\ cal = MountedCal(<<>>)
  /\ localStorage = <<>>
  /\ inflight = <<>>
  /\ now = 0
  /\ blocked = ""
  /\ storeCall = <<>>

NextEmail ==
  \/ \E v \in SenderEmails : setSenderEmail(v)
  \/ \E v \in SenderPasswords : setSenderPassword(v)
  \/ \E v \in RecipientInputs : setRecipientInput(v)
  \/ addRecipient
  \/ \E i \in DOMAIN email.emailForm.recipients : removeRecipient(email.emailForm.recipients[i])
  \/ ~TestDisabled /\ testConnection
  \/ \E i \in DOMAIN inflight, r \in TestResults : testConnectionResolved(i, r)
  \/ \E i \in DOMAIN inflight, e \in Errors : testConnectionRejected(i, e)
  \/ successTimeout
  \/ previewEmail
  \/ \E i \in DOMAIN inflight, r \in PreviewResults : previewEmailResolved(i, r)
  \/ \E i \in DOMAIN inflight, e \in Errors : previewEmailRejected(i, e)
  \/ closePreview
  \/ ~SendDisabled /\ sendEmail
  \/ \E i \in DOMAIN inflight, r \in TestResults : sendEmailResolved(i, r)
  \/ \E i \in DOMAIN inflight, e \in Errors : sendEmailRejected(i, e)

SpecEmail == InitEmail /\ [][NextEmail]_vars

\* ---------------------------------------------------------------------------
\* The item list: delete, save, search, toggle, ids
\* ---------------------------------------------------------------------------

\* C11: handleDeleteItem with an id that no item of the list carries changes
\* nothing: the list keeps its length, items and order, and no other field of
\* the meeting data changes
C11_DeleteOfAbsentIdIsNoOp ==
  [][\A itemId \in IdsOf(ActionItemsOf(meetingData)) \cup OtherIds :
       (handleDeleteItem(itemId) /\ itemId \notin IdsOf(ActionItemsOf(meetingData)))
         => meetingData' = meetingData]_vars

\* the handler was just called with an id absent from a list that holds an item
C11_Witness ==
  /\ storeCall # <<>>
  /\ storeCall[1].by = "handleDeleteItem"
  /\ storeCall[1].arg = <<9>>
  /\ ActionItemsOf(meetingData) # <<>>
  /\ 9 \notin IdsOf(ActionItemsOf(meetingData))

\* C12: Save Changes on an edit whose item is no longer in the list changes no
\* item, adds none and sets no error: the edit is dropped silently
C12_SaveOfVanishedItemIsDropped ==
  [][(/\ items.editingItem # <<>>
      /\ items.editingItem[1].id \notin IdsOf(ActionItemsOf(meetingData))
      /\ handleSaveItem(now, now))
       => /\ meetingData' = meetingData
          /\ items'.error = items.error
          /\ ~items'.editDialog]_vars

\* Save Changes was just called for an item that an extraction had replaced by
\* another one while the dialog was open, with a changed form
C12_Witness ==
  /\ storeCall # <<>>
  /\ storeCall[1].by = "handleSaveItem"
  /\ storeCall[1].arg # <<>>
  /\ storeCall[1].arg[1].id \notin IdsOf(ActionItemsOf(meetingData))
  /\ ActionItemsOf(meetingData) # <<>>
  /\ items.itemForm.task \in TaskInputs
  /\ ~items.editDialog

\* two characters that are the same letter, whatever their case
SameLetter(c, d) == c = d \/ {c, d} \in {{"a", "A"}, {"b", "B"}}

\* text holds query as a run of consecutive characters, ignoring case
ContainsIgnoringCase(text, query) ==
  \E i \in 0..(Len(text) - Len(query)) :
    \A j \in 1..Len(query) : SameLetter(text[i + j], query[j])

\* the positions of the list whose item has the query in its task or assignee
Matching ==
  {k \in DOMAIN ActionItemsOf(meetingData) :
     \/ ContainsIgnoringCase(ActionItemsOf(meetingData)[k].task, items.searchQuery)
     \/ ContainsIgnoringCase(ActionItemsOf(meetingData)[k].assignee, items.searchQuery)}

C14_AddThenToggleTwice ==
  [][\A t \in 0..MaxClock, t2 \in 0..MaxClock :
       (/\ items.editingItem = <<>>
        /\ items.itemForm.status = "pending"
        /\ handleSaveItem(t, t2))
         => LET added == ActionItemsOf(meetingData')
            IN Toggled(Toggled(added, t), t)
                 = [added EXCEPT ![Len(added)].status = "completed"]]_vars

\* C15: no two items of the list have the same id
C15_IdsUnique ==
  \A j \in DOMAIN ActionItemsOf(meetingData), k \in DOMAIN ActionItemsOf(meetingData) :
    j # k => ActionItemsOf(meetingData)[j].id # ActionItemsOf(meetingData)[k].id

\* ---------------------------------------------------------------------------
\* Requests in flight together
\* ---------------------------------------------------------------------------

\* the fields of the meeting data that a successful call of the operation writes
Writes(op) ==
  CASE op = "transcribe" -> {"transcript", "segments", "language", "duration", "speakerCount"}
    [] op = "process" -> {"transcript", "segments", "summary", "actionItems", "sentiment",
                          "participation", "language", "duration", "speakerCount"}
    [] op = "summarize" -> {"summary"}
    [] op = "extract" -> {"actionItems"}
    [] op = "sentiment" -> {"sentiment", "participation"}
    [] OTHER -> {}

\* request i is pending together with another request that writes a field it writes
Overlapping(i) ==
  \E j \in DOMAIN inflight \ {i} : Writes(inflight[j].op) \cap Writes(inflight[i].op) # {}

\* the fields that the success path of request i writes hold, after the step
\* that settles it, what its response carried
ResponseStored(i) ==
  /\ \A r \in TranscribeResults :
       handleUploadResolved(i, r)
         => /\ meetingData'.transcript = r.transcript
            /\ meetingData'.segments = r.segments
  /\ \A r \in ProcessResults :
       handleCompleteProcessResolved(i, r)
         => /\ meetingData'.transcript = r.transcript
            /\ meetingData'.segments = r.segments
            /\ meetingData'.summary = r.summary
            /\ meetingData'.actionItems = r.action_items
            /\ meetingData'.sentiment = r.sentiment
            /\ meetingData'.participation = r.participation
  /\ \A r \in SummarizeResults :
       generateSummaryResolved(i, r) => meetingData'.summary = r.summary
  /\ \A r \in ExtractResults :
       extractActionItemsResolved(i, r)
         => meetingData'.actionItems = GetOr(r, "action_items", <<>>)
  /\ \A r \in SentimentResults :
       analyzeSentimentResolved(i, r)
         => /\ meetingData'.sentiment = GetOr(r, "sentiment", EmptyObject)
            /\ meetingData'.participation = GetOr(r, "participation", EmptyObject)

ViewOf(op) ==
  CASE op \in {"transcribe", "process"} -> TranscriptionTab
    [] op = "summarize" -> SummaryTab
    [] op = "extract" -> ActionItemsTab
    [] op = "sentiment" -> DashboardTab
    [] op \in {"testEmail", "previewEmail", "sendEmail"} -> EmailTab
    [] OTHER -> CalendarTab

\* C17: a request whose view was left by a tab change while it was pending has
\* its response merged into the meeting data all the same when it succeeds,
\* and so has a request that is in flight together with one of another view,
\* which stays pending
C17_ResponseMergedAfterTabChange ==
  [][\A i \in DOMAIN inflight :
       (/\ inflight' = RemoveAt(inflight, i)
        /\ \/ ~inflight[i].live
           \/ \E j \in DOMAIN inflight : ViewOf(inflight[j].op) # ViewOf(inflight[i].op))
         => ResponseStored(i)]_vars

\* a summary arrived after its view had been left, while an extraction of the
\* Action Items view was pending too, and the store holds it
C17_Witness ==
  /\ storeCall # <<>>
  /\ storeCall[1].by = "generateSummary"
  /\ ~storeCall[1].arg.pending[storeCall[1].arg.at].live
  /\ \E j \in DOMAIN storeCall[1].arg.pending : storeCall[1].arg.pending[j].op = "extract"
  /\ tabValue = ActionItemsTab
  /\ meetingData.summary = "s1"

\* C18: a successful /extract-actions or /process-complete leaves in actionItems
\* exactly the items of its response, or none if it carries none: whatever the
\* list held, manual changes made while the call was in flight included, is gone
C18_ExtractionReplacesList ==
  [][\A i \in DOMAIN inflight :
       inflight' = RemoveAt(inflight, i) =>
         /\ \A r \in ItemsExtractResults :
              extractActionItemsResolved(i, r)
                => ActionItemsOf(meetingData') = GetOr(r, "action_items", <<>>)
         /\ \A r \in ItemsProcessResults :
              handleCompleteProcessResolved(i, r)
                => ActionItemsOf(meetingData') = GetOr(r, "action_items", <<>>)]_vars

\* an item was added by hand in the step before the extraction resolved, and
\* the list now holds the extracted item alone
C18_Witness ==
  /\ storeCall # <<>>
  /\ storeCall[1].by = "extractActionItems"
  /\ storeCall[1].arg.after # <<>>
  /\ storeCall[1].arg.after[1].by = "handleSaveItem"
  /\ storeCall[1].arg.after[1].arg = <<>>
  /\ ActionItemsOf(meetingData) = <<ItemOdd>>

\* ---------------------------------------------------------------------------
\* The Calendar view
\* ---------------------------------------------------------------------------

\* C19: whenever the meeting data holds action items and the Calendar tab is
\* shown, the list of action items the Calendar view offers for Create Event
\* equals the actionItems of the meeting data
C19_CalendarOffersStoreItems ==
  (tabValue = CalendarTab /\ ActionItemsOf(meetingData) # <<>>)
    => CalendarSyncActionItems = ActionItemsOf(meetingData)

\* ---------------------------------------------------------------------------
\* The values of status and priority
\* ---------------------------------------------------------------------------

PriorityValues == {"High", "Medium", "Low"}

\* C20: every item of the list has a status among pending, in_progress and
\* completed and a priority among High, Medium and Low
C20_StatusAndPriorityInRange ==
  \A k \in DOMAIN ActionItemsOf(meetingData) :
    /\ HasStatusValue(ActionItemsOf(meetingData)[k])
    /\ "priority" \in DOMAIN ActionItemsOf(meetingData)[k]
    /\ ActionItemsOf(meetingData)[k].priority \in PriorityValues

\* ---------------------------------------------------------------------------
\* The Email view
\* ---------------------------------------------------------------------------

\* the addresses of a typed input: its pieces between commas, trimmed, the empty ones dropped
TypedAddresses(input) == SelectSeq(MapTrim(SplitComma(input)), NonEmpty)

\* local@domain.tld: no blank, one '@' after a local part, and a '.' inside
\* the part after the '@' with something on both sides of it
HasEmailShape(e) ==
  /\ \A i \in DOMAIN e : e[i] # " "
  /\ \E a \in DOMAIN e :
       /\ e[a] = "@"
       /\ \A i \in DOMAIN e : e[i] = "@" => i = a
       /\ a > 1
       /\ \E d \in DOMAIN e : e[d] = "." /\ d > a + 1 /\ d < Len(e)

\* C21: Add with an input that holds at least one malformed address sets the
\* error that names the malformed addresses, adds no address of the input to
\* the recipients, well-formed or not, and keeps the typed input
C21_MalformedInputRejected ==
  [][(/\ addRecipient
      /\ \E k \in DOMAIN TypedAddresses(email.recipientInput) :
           ~HasEmailShape(TypedAddresses(email.recipientInput)[k]))
       => /\ email'.error = "Invalid email addresses: "
                               \o JoinComma(SelectSeq(TypedAddresses(email.recipientInput),
                                                      LAMBDA e : ~HasEmailShape(e)))
          /\ email'.emailForm.recipients = email.emailForm.recipients
          /\ email'.recipientInput = email.recipientInput]_vars

\* Add was called on 'd@e.f, x' while a@b.c was a recipient
C21_Witness ==
  /\ email.error = "Invalid email addresses: x"
  /\ email.recipientInput = CommaList(<<AddrB, <<"x">>>>)
  /\ email.emailForm.recipients = <<AddrA>>

\* C29: the recipient list holds no address twice, and every address in it
\* has the shape local@domain.tld
C29_RecipientsDistinctAndShaped ==
  /\ \A i \in DOMAIN email.emailForm.recipients, j \in DOMAIN email.emailForm.recipients :
       i # j => email.emailForm.recipients[i] # email.emailForm.recipients[j]
  /\ \A i \in DOMAIN email.emailForm.recipients : HasEmailShape(email.emailForm.recipients[i])

\* two addresses are recipients after an Add that was accepted and cleared the input
C29_Witness ==
  /\ email.emailForm.recipients = <<AddrB, AddrA>>
  /\ email.recipientInput = <<>>
  /\ email.error = ""

\* C22: when the request of the email preview fails, the error banner of the
\* Email view is the server's detail message if the failure carries one and
\* the fallback message otherwise
C22_PreviewFailureSetsBanner ==
  [][\A i \in DOMAIN inflight :
       inflight' = RemoveAt(inflight, i) =>
         \A err \in Errors :
           previewEmailRejected(i, err) /\ inflight[i].live
             => email'.error = Banner(err, PreviewFailedMsg)]_vars

\* C28: no operation of the Email view changes the meeting data, whether its
\* request succeeds or fails
C28_EmailKeepsMeetingData ==
  [][NextEmail => meetingData' = meetingData]_vars

\* an email was sent to one recipient while the store held a summary and an item
C28_Witness ==
  /\ email.success = SentOkMsg(1)
  /\ ~email.sending
  /\ meetingData.summary = "s1"
  /\ meetingData.actionItems = <<ItemA>>

\* ---------------------------------------------------------------------------
\* The Transcription view: what a transcription and Clear All write
\* ---------------------------------------------------------------------------

TranscribedFields == {"transcript", "segments", "language", "duration", "speakerCount"}

\* C23: a successful /transcribe changes transcript, segments, language,
\* duration and speakerCount only: every other field of the meeting data,
\* summary, actionItems, sentiment and participation among them, keeps its value
C23_TranscribeKeepsDerivedFields ==
  [][\A i \in DOMAIN inflight :
       inflight' = RemoveAt(inflight, i) =>
         \A r \in TranscribeResults :
           handleUploadResolved(i, r)
             => /\ DOMAIN meetingData' = DOMAIN meetingData \cup TranscribedFields
                /\ \A k \in DOMAIN meetingData \ TranscribedFields :
                     meetingData'[k] = meetingData[k]]_vars

\* a transcription was stored while the store held the summary, the items and
\* the sentiment of a complete processing of another recording
C23_Witness ==
  /\ storeCall # <<>>
  /\ storeCall[1].by = "handleUpload"
  /\ meetingData.transcript = "t1"
  /\ meetingData.summary = "s2"
  /\ meetingData.actionItems = <<ItemA>>
  /\ meetingData.sentiment = SentimentA

\* C24: clearAll sets transcript and summary to '', segments and actionItems to
\* the empty list and sentiment and participation to the empty mapping, and
\* leaves language, duration and speakerCount as they were
C24_ClearAllResets ==
  [][clearAll =>
       /\ meetingData'.transcript = ""
       /\ meetingData'.summary = ""
       /\ meetingData'.segments = <<>>
       /\ meetingData'.actionItems = <<>>
       /\ meetingData'.sentiment = EmptyObject
       /\ meetingData'.participation = EmptyObject
       /\ \A k \in {"language", "duration", "speakerCount"} :
            /\ k \in DOMAIN meetingData' <=> k \in DOMAIN meetingData
            /\ k \in DOMAIN meetingData => meetingData'[k] = meetingData[k]]_vars

\* Clear All was just clicked on a store that held a transcription: the
\* transcript is gone, the language is still there
C24_Witness ==
  /\ storeCall # <<>>
  /\ storeCall[1].by = "clearAll"
  /\ meetingData.transcript = ""
  /\ meetingData.segments = <<>>
  /\ "language" \in DOMAIN meetingData
  /\ meetingData.language = "en"
  /\ meetingData.duration = "95"

\* C25: no request that was pending when clearAll ran writes transcript,
\* summary, actionItems, sentiment or participation afterwards: in the step
\* after clearAll, the settling of a pending request leaves them cleared
C25_ClearedStaysCleared ==
  [][(storeCall # <<>> /\ storeCall[1].by = "clearAll") =>
       \A i \in DOMAIN inflight :
         inflight' = RemoveAt(inflight, i) =>
           \A k \in {"transcript", "summary", "actionItems", "sentiment", "participation"} :
             meetingData'[k] = meetingData[k]]_vars

\* ---------------------------------------------------------------------------
\* The item list: how many items one operation touches
\* ---------------------------------------------------------------------------

EditedFields == {"task", "assignee", "deadline", "priority", "status"}

\* the positions of the list whose item has the id
PositionsOf(list, id) == {k \in DOMAIN list : list[k].id = id}

\* the lowest of a non-empty set of positions
Lowest(S) == CHOOSE k \in S : \A j \in S : k <= j

\* C26: saving an edit writes the form's task, assignee, deadline, priority and
\* status into the first item with the edited id and changes nothing else (id,
\* extracted_at, position, length, other items); saving a new item appends one
\* item and changes no existing item
C26_SaveTouchesOneItem ==
  [][(\E t \in 0..MaxClock, t2 \in 0..MaxClock : handleSaveItem(t, t2)) =>
       LET old == ActionItemsOf(meetingData)
           new == ActionItemsOf(meetingData')
       IN IF items.editingItem = <<>>
          THEN /\ Len(new) = Len(old) + 1
               /\ SubSeq(new, 1, Len(old)) = old
          ELSE /\ Len(new) = Len(old)
               /\ \A k \in DOMAIN old :
                    IF /\ PositionsOf(old, items.editingItem[1].id) # {}
                       /\ k = Lowest(PositionsOf(old, items.editingItem[1].id))
                    THEN /\ DOMAIN new[k] = DOMAIN old[k] \cup EditedFields
                         /\ \A f \in EditedFields : new[k][f] = items.itemForm[f]
                         /\ \A f \in DOMAIN old[k] \ EditedFields : new[k][f] = old[k][f]
                    ELSE new[k] = old[k]]_vars

\* an edit was just saved in a list of two items with the same id: the first
\* has the new task, the second is as it was
C26_Witness ==
  /\ storeCall # <<>>
  /\ storeCall[1].by = "handleSaveItem"
  /\ storeCall[1].arg # <<>>
  /\ Len(ActionItemsOf(meetingData)) = 2
  /\ ActionItemsOf(meetingData)[1].id = ActionItemsOf(meetingData)[2].id
  /\ storeCall[1].arg[1].task \notin TaskInputs
  /\ ActionItemsOf(meetingData)[1].task \in TaskInputs
  /\ ActionItemsOf(meetingData)[2].task \notin TaskInputs

\* the positions at which two lists of the same length differ
ChangedPositions(old, new) == {k \in DOMAIN old : new[k] # old[k]}

\* C27: toggling the status by an id changes exactly one item, deleting by an
\* id removes exactly one item and saving an edit changes at most one item,
\* also when several items of the list carry that id
C27_OneItemAffected ==
  [][LET old == ActionItemsOf(meetingData)
         new == ActionItemsOf(meetingData')
     IN /\ \A itemId \in IdsOf(old) :
             /\ toggleItemStatus(itemId)
                  => /\ Len(new) = Len(old)
                     /\ Cardinality(ChangedPositions(old, new)) = 1
             /\ handleDeleteItem(itemId) => Len(new) = Len(old) - 1
        /\ (items.editingItem # <<>> /\ handleSaveItem(now, now))
             => /\ Len(new) = Len(old)
                /\ Cardinality(ChangedPositions(old, new)) <= 1]_vars

\* ---------------------------------------------------------------------------
\* The Calendar view
\* ---------------------------------------------------------------------------

\* the ids of the calendars of a list
CalendarIds(list) == {list[k].id : k \in DOMAIN list}

\* C30: the connectedCalendars of the mounted view and the list stored under
\* 'connectedCalendars' are equal, and a calendar that was disconnected while a
\* connectCalendar call was pending (it was connected when the call was issued
\* and is not stored any more) is not brought back when the call completes
C30_DisconnectedStaysDisconnected ==
  [][/\ tabValue' = CalendarTab => cal'.connectedCalendars = localStorage'
     /\ \A i \in DOMAIN inflight :
          (inflight' = RemoveAt(inflight, i) /\ inflight[i].op = "connect")
            => \A c \in CalendarIds(inflight[i].snapshot) \ CalendarIds(localStorage) :
                 c \notin CalendarIds(localStorage') \cup CalendarIds(cal'.connectedCalendars)]_vars

====
